---- MODULE Spec2Model ----
(***************************************************************************)
(* Model of src/app.py, the "Global Flight Route Analysis" dashboard.      *)
(*                                                                         *)
(* The script is re-executed top to bottom on every user interaction.  A   *)
(* session is a sequence of such runs; pc is the position inside the       *)
(* current run, ui is the list of elements the run has put on the page.    *)
(* load_data is memoised by st.cache_data across the runs.                 *)
(*                                                                         *)
(* Names of airports, routes and countries are modelled as small integers, *)
(* coordinates as integers, and a line weight (a float in the code) as the *)
(* exact fraction num/den.                                                 *)
(***************************************************************************)
EXTENDS Integers, Sequences, FiniteSets, TLC

VARIABLES
    store,            \* the records held by the data sources
    cache,            \* st.cache_data entry of load_data
    loadTrace,        \* states visited by the latest execution of load_data's body
    contacts,         \* session log of data-source accesses
    runs,             \* number of script runs started
    pc,               \* position in the current run
    widget,           \* sidebar multiselect state kept by the session
    df,               \* line 45 / 50
    year_options,     \* line 54
    route_type_options, \* line 56
    selected_year,    \* line 55
    selected_type,    \* line 57
    filtered_df,      \* line 60
    metrics,          \* lines 65-67
    top_departure_countries, \* lines 101-103
    top_routes,       \* line 136
    m,                \* the folium map handed to folium_static (line 255)
    ui                \* elements shown by the current run, in order

vars == <<store, cache, loadTrace, contacts, runs, pc, widget, df,
          year_options, route_type_options, selected_year, selected_type,
          filtered_df, metrics, top_departure_countries, top_routes, m, ui>>

(***************************************************************************)
(* Bounds of the model.                                                    *)
(***************************************************************************)
MaxRows == 2          \* records in the data source (session specification)
MaxRuns == 2          \* script runs per session
MaxAggRows == 12      \* records in an aggregation input (aggregation specification)

(***************************************************************************)
(* Program constants.                                                      *)
(***************************************************************************)
TopRoutesN == 10      \* .head(10), line 136
TopCountriesN == 5    \* .head(5), line 103
BaseWeight == 2       \* line 181
WeightScale == 5      \* line 181

Min(a, b) == IF a < b THEN a ELSE b

(***************************************************************************)
(* Flight Route Records.                                                   *)
(***************************************************************************)
Years == {2020, 2021}
Types == {"A", "B"}
PassengerVals == {0, 10}

\* A record of route r; c shifts the coordinates (the same Route string can
\* appear with different coordinates), the other fields are given.
MkRow(r, c, ctry, y, t, p) ==
    [Route |-> r, From |-> 100 + r, To |-> 200 + r, From_Country |-> ctry,
     Year |-> y, Type |-> t, Passengers |-> p,
     From_Lat |-> r + c, From_Lon |-> r, To_Lat |-> r + 1, To_Lon |-> r + 2]

\* the records of the session specification: two routes, each from its own
\* country, every Year, Type and Passengers value
RowDomain ==
    { MkRow(r, 0, r, y, t, p) : r \in 1..2, y \in Years, t \in Types, p \in PassengerVals }

RECURSIVE SeqsUpTo(_, _)
SeqsUpTo(S, n) ==
    IF n = 0 THEN { <<>> }
    ELSE LET shorter == SeqsUpTo(S, n - 1)
         IN  shorter \cup { Append(s, x) : s \in { t \in shorter : Len(t) = n - 1 }, x \in S }

Datasets == SeqsUpTo(RowDomain, MaxRows)

DataColumns == {"Route", "From", "To", "From_Country", "Year", "Type", "Passengers",
                "From_Lat", "From_Lon", "To_Lat", "To_Lon"}

\* A DataFrame, or None (isNone).
NoneDF == [isNone |-> TRUE, columns |-> {}, rows |-> <<>>]
Frame(cols, rows) == [isNone |-> FALSE, columns |-> cols, rows |-> rows]

\* pd.DataFrame(list(collection.find())): every document carries _id; a
\* collection without documents gives a frame without columns.
MongoFrame(rows) ==
    IF rows = <<>> THEN Frame({}, <<>>) ELSE Frame(DataColumns \cup {"_id"}, rows)

\* pd.read_csv of a file with the header row.
CsvFrame(rows) == Frame(DataColumns, rows)

Range(s) == { s[i] : i \in 1..Len(s) }

RECURSIVE SumSeq(_)
SumSeq(s) == IF s = <<>> THEN 0 ELSE Head(s) + SumSeq(Tail(s))

Max(S) == CHOOSE x \in S : \A y \in S : y <= x
MinOf(S) == CHOOSE x \in S : \A y \in S : x <= y

RECURSIVE SortAsc(_)
\* sorted(...) of a set of integers
SortAsc(S) == IF S = {} THEN <<>> ELSE <<MinOf(S)>> \o SortAsc(S \ {MinOf(S)})

(***************************************************************************)
(* Filter Engine, line 60.                                                 *)
(***************************************************************************)
\* Series.isin(values): one boolean per row
IsinYear(rows, values) == [i \in 1..Len(rows) |-> rows[i].Year \in values]
IsinType(rows, values) == [i \in 1..Len(rows) |-> rows[i].Type \in values]

MaskOr(a, b) == [i \in DOMAIN a |-> a[i] \/ b[i]]
\* the & of two boolean Series
MaskAnd(a, b) == [i \in DOMAIN a |-> a[i] /\ b[i]]

RECURSIVE BoolIndexFrom(_, _, _)
BoolIndexFrom(rows, mask, i) ==
    IF i > Len(rows) THEN <<>>
    ELSE (IF mask[i] THEN <<rows[i]>> ELSE <<>>) \o BoolIndexFrom(rows, mask, i + 1)

\* df[mask]: the rows whose mask entry is True, in their order
BoolIndex(rows, mask) == BoolIndexFrom(rows, mask, 1)

FilterRows(rows, years, types) ==
    BoolIndex(rows, MaskAnd(IsinYear(rows, years), IsinType(rows, types)))

(***************************************************************************)
(* Aggregation Layer.                                                      *)
(***************************************************************************)
RECURSIVE TotalPassengers(_)
\* filtered_df["Passengers"].sum(), line 65
TotalPassengers(rows) ==
    IF rows = <<>> THEN 0 ELSE Head(rows).Passengers + TotalPassengers(Tail(rows))

RECURSIVE CountrySum(_, _)
CountrySum(rows, c) ==
    IF rows = <<>> THEN 0
    ELSE (IF Head(rows).From_Country = c THEN Head(rows).Passengers ELSE 0)
         + CountrySum(Tail(rows), c)

\* groupby("From_Country")["Passengers"].sum().idxmax(), line 67: the first
\* label (groupby sorts the labels) holding the maximum.  Only for rows # <<>>.
TopCountry(rows) ==
    LET cs == { r.From_Country : r \in Range(rows) }
        mx == Max({ CountrySum(rows, c) : c \in cs })
    IN  MinOf({ c \in cs : CountrySum(rows, c) = mx })

\* positions of vals, largest value first; equal values keep their order, or
\* the reverse of it (the sort is not required to be stable)
RECURSIVE SortPerm(_, _, _)
SortPerm(vals, I, tieLast) ==
    IF I = {} THEN <<>>
    ELSE LET mx == Max({ vals[i] : i \in I })
             cands == { i \in I : vals[i] = mx }
             pick == IF tieLast THEN Max(cands) ELSE MinOf(cands)
         IN  <<pick>> \o SortPerm(vals, I \ {pick}, tieLast)

SortPermAsc(vals, tieLast) ==
    LET n == Len(vals)
        d == SortPerm(vals, 1..n, tieLast)
    IN  [j \in 1..n |-> d[n + 1 - j]]

\* sort_values(..., ascending=False) as a permutation of positions
SortPermDesc(vals, tieLast) == SortPerm(vals, 1..Len(vals), tieLast)

\* .head(n)
HeadN(s, n) == SubSeq(s, 1, Min(n, Len(s)))

\* the seven grouping columns of line 135
RouteKey(r) == <<r.Route, r.From, r.To, r.From_Lat, r.From_Lon, r.To_Lat, r.To_Lon>>

TupleLess(a, b) ==
    \E i \in 1..Len(a) : a[i] < b[i] /\ \A j \in 1..(i - 1) : a[j] = b[j]

RECURSIVE SortKeys(_)
\* groupby orders the groups by their key
SortKeys(K) ==
    IF K = {} THEN <<>>
    ELSE LET mn == CHOOSE k \in K : \A o \in K \ {k} : TupleLess(k, o)
         IN  <<mn>> \o SortKeys(K \ {mn})

RECURSIVE RouteSum(_, _)
RouteSum(rows, k) ==
    IF rows = <<>> THEN 0
    ELSE (IF RouteKey(Head(rows)) = k THEN Head(rows).Passengers ELSE 0)
         + RouteSum(Tail(rows), k)

RouteEntry(k, p) ==
    [Route |-> k[1], From |-> k[2], To |-> k[3], From_Lat |-> k[4],
     From_Lon |-> k[5], To_Lat |-> k[6], To_Lon |-> k[7], Passengers |-> p]

\* line 135: groupby([...7 columns...])["Passengers"].sum().reset_index()
RouteData(rows) ==
    LET ks == SortKeys({ RouteKey(r) : r \in Range(rows) })
    IN  [i \in 1..Len(ks) |-> RouteEntry(ks[i], RouteSum(rows, ks[i]))]

\* line 136
TopRoutes(rows, tieLast) ==
    LET route_data == RouteData(rows)
        perm == SortPermDesc([i \in 1..Len(route_data) |-> route_data[i].Passengers], tieLast)
    IN  HeadN([j \in 1..Len(perm) |-> route_data[perm[j]]], TopRoutesN)

RECURSIVE PairSum(_, _, _)
PairSum(rows, c, t) ==
    IF rows = <<>> THEN 0
    ELSE (IF Head(rows).From_Country = c /\ Head(rows).Type = t
          THEN Head(rows).Passengers ELSE 0)
         + PairSum(Tail(rows), c, t)

\* the missing value unstack() puts where a (From_Country, Type) pair has no row
NaN == -1

\* A table: index is the sequence of row labels, columns the set of column
\* labels, cell[<<label, column>>] the value.
\* groupby(["From_Country","Type"])["Passengers"].sum().unstack(), line 101
Unstack(rows) ==
    LET pairs == { <<r.From_Country, r.Type>> : r \in Range(rows) }
        cs == { pr[1] : pr \in pairs }
        ts == { pr[2] : pr \in pairs }
    IN  [index |-> SortAsc(cs), columns |-> ts,
         cell |-> [pr \in cs \X ts |->
                      IF pr \in pairs THEN PairSum(rows, pr[1], pr[2]) ELSE NaN]]

KeepNa(t, v) == t
\* .fillna(v)
FillNa(t, v) ==
    [t EXCEPT !.cell = [pr \in DOMAIN t.cell |-> IF t.cell[pr] = NaN THEN v ELSE t.cell[pr]]]

RECURSIVE SumCells(_, _, _)
SumCells(t, c, cols) ==
    IF cols = {} THEN 0
    ELSE LET x == CHOOSE y \in cols : TRUE
         IN  t.cell[<<c, x>>] + SumCells(t, c, cols \ {x})

\* t["Total"] = t.sum(axis=1), line 102
WithTotal(t) ==
    LET labels == Range(t.index)
    IN  [index |-> t.index, columns |-> t.columns \cup {"Total"},
         cell |-> [pr \in labels \X (t.columns \cup {"Total"}) |->
                      IF pr[2] = "Total" THEN SumCells(t, pr[1], t.columns)
                      ELSE t.cell[pr]]]

\* the index reordered to idx, with the cells of the labels kept
Reindex(t, idx) ==
    [index |-> idx, columns |-> t.columns,
     cell |-> [pr \in Range(idx) \X t.columns |-> t.cell[pr]]]

\* .drop(columns=col)
DropColumn(t, col) ==
    [index |-> t.index, columns |-> t.columns \ {col},
     cell |-> [pr \in Range(t.index) \X (t.columns \ {col}) |-> t.cell[pr]]]

\* lines 101-103
TopDepartureCountries(rows, tieLast) ==
    LET t == WithTotal(FillNa(Unstack(rows), 0))
        perm == SortPermDesc([i \in 1..Len(t.index) |-> t.cell[<<t.index[i], "Total">>]], tieLast)
        sorted == Reindex(t, [j \in 1..Len(perm) |-> t.index[perm[j]]])
    IN  DropColumn(Reindex(sorted, HeadN(sorted.index, TopCountriesN)), "Total")

EmptyTable == [index |-> <<>>, columns |-> {}, cell |-> [pr \in {} |-> 0]]

(***************************************************************************)
(* Presentation Layer: the map, lines 141-255.                             *)
(***************************************************************************)
\* [31.5, 34.5], in tenths of a degree
palestine_center == <<315, 345>>

\* line 181 with the maximum mx of the top set, mx # 0: the float
\* 2 + passenger_count / mx * 5 as the exact fraction num/den
LineWeight(passenger_count, mx) ==
    [num |-> BaseWeight * mx + WeightScale * passenger_count, den |-> mx]

NoMap == [shown |-> FALSE, marker |-> <<>>, lines |-> <<>>]

\* the folium map after the loop of lines 177-226
BuildMap(routes) ==
    LET mx == Max({ routes[i].Passengers : i \in 1..Len(routes) })
    IN  [shown |-> TRUE, marker |-> palestine_center,
         lines |-> [i \in 1..Len(routes) |->
                       [Route |-> routes[i].Route,
                        weight |-> LineWeight(routes[i].Passengers, mx)]]]

(***************************************************************************)
(* Data Source Adapter: load_data under st.cache_data, lines 22-45.        *)
(***************************************************************************)
NoCache == [filled |-> FALSE, value |-> NoneDF, msgs |-> <<>>]

CachePutUnlessNone(value, msgs) ==
    IF value.isNone THEN NoCache ELSE [filled |-> TRUE, value |-> value, msgs |-> msgs]

\* st.cache_data keeps the returned value, None included, together with the
\* st elements the call produced, which a later hit replays
CachePut(value, msgs) == [filled |-> TRUE, value |-> value, msgs |-> msgs]

MsgMongoOk == "success: Data loaded from MongoDB"
MsgMongoFail == "warning: Could not connect to MongoDB"
MsgCsvOk == "success: Data loaded from CSV"
MsgNoSource == "error: No data source available"
MsgUnable == "error: Unable to load data for visualization"
MsgDepartureError == "error: Error rendering departure countries chart"
MsgMapError == "error: Error rendering map"
Exception == "uncaught exception"

NoMetrics == [total_passengers |-> 0, total_routes |-> 0, top_country |-> 0]
NoWidget == [set |-> FALSE, years |-> {}, types |-> {}]

Between == {"idle", "done", "crashed"}

Init ==
    /\ store \in Datasets
    /\ cache = NoCache
    /\ loadTrace = <<>>
    /\ contacts = <<>>
    /\ runs = 0
    /\ pc = "idle"
    /\ widget = NoWidget
    /\ df = NoneDF
    /\ year_options = <<>>
    /\ route_type_options = {}
    /\ selected_year = {}
    /\ selected_type = {}
    /\ filtered_df = <<>>
    /\ metrics = NoMetrics
    /\ top_departure_countries = EmptyTable
    /\ top_routes = <<>>
    /\ m = NoMap
    /\ ui = <<>>

\* A script run starts: the page is opened, or the user changes the sidebar
\* selection (any subset of the options shown) or asks for a rerun.
\* Lines 12-19 show the title and the description.
StartRun ==
    /\ pc \in Between
    /\ runs < MaxRuns
    /\ IF widget.set
       THEN \E ys \in SUBSET Range(year_options), ts \in SUBSET route_type_options :
                widget' = [set |-> TRUE, years |-> ys, types |-> ts]
       ELSE widget' = widget
    /\ runs' = runs + 1
    /\ pc' = "load"
    /\ ui' = <<"title", "description">>
    /\ df' = NoneDF
    /\ selected_year' = {}
    /\ selected_type' = {}
    /\ filtered_df' = <<>>
    /\ metrics' = NoMetrics
    /\ top_departure_countries' = EmptyTable
    /\ top_routes' = <<>>
    /\ m' = NoMap
    /\ UNCHANGED <<store, cache, loadTrace, contacts, year_options, route_type_options>>

\* line 45 through the st.cache_data wrapper of line 22: a hit returns the
\* kept value and replays its messages, a miss enters the body
CallLoadData ==
    /\ pc = "load"
    /\ IF cache.filled
       THEN /\ df' = cache.value
            /\ ui' = ui \o cache.msgs
            /\ pc' = "script"
            /\ UNCHANGED loadTrace
       ELSE /\ loadTrace' = <<"TryPrimary">>
            /\ pc' = "primary"
            /\ UNCHANGED <<df, ui>>
    /\ UNCHANGED <<store, cache, contacts, runs, widget, year_options, route_type_options,
                   selected_year, selected_type, filtered_df, metrics,
                   top_departure_countries, top_routes, m>>

\* lines 24-34: the MongoDB attempt; reachable is whether the server answers
TryPrimary ==
    /\ pc = "primary"
    /\ contacts' = Append(contacts, "primary")
    /\ \E reachable \in BOOLEAN :
          IF reachable
          THEN /\ df' = MongoFrame(store)
               /\ ui' = Append(ui, MsgMongoOk)
               /\ cache' = CachePut(MongoFrame(store), <<MsgMongoOk>>)
               /\ loadTrace' = Append(loadTrace, "Loaded")
               /\ pc' = "script"
          ELSE /\ ui' = Append(ui, MsgMongoFail)
               /\ loadTrace' = Append(loadTrace, "TrySecondary")
               /\ pc' = "secondary"
               /\ UNCHANGED <<df, cache>>
    /\ UNCHANGED <<store, runs, widget, year_options, route_type_options,
                   selected_year, selected_type, filtered_df, metrics,
                   top_departure_countries, top_routes, m>>

\* lines 35-42, inside the except handler: file is the state of
\* busist_flight.csv.csv ("bad": it exists and pd.read_csv raises on it)
TrySecondary ==
    /\ pc = "secondary"
    /\ contacts' = Append(contacts, "secondary")
    /\ \E file \in {"ok", "absent", "bad"} :
          CASE file = "ok" ->
                 /\ df' = CsvFrame(store)
                 /\ ui' = Append(ui, MsgCsvOk)
                 /\ cache' = CachePut(CsvFrame(store), <<MsgMongoFail, MsgCsvOk>>)
                 /\ loadTrace' = Append(loadTrace, "Loaded")
                 /\ pc' = "script"
            [] file = "absent" ->
                 /\ df' = NoneDF
                 /\ ui' = Append(ui, MsgNoSource)
                 /\ cache' = CachePut(NoneDF, <<MsgMongoFail, MsgNoSource>>)
                 /\ loadTrace' = Append(loadTrace, "Unavailable")
                 /\ pc' = "script"
            [] file = "bad" ->
                 /\ ui' = Append(ui, Exception)
                 /\ loadTrace' = Append(loadTrace, "Raised")
                 /\ pc' = "crashed"
                 /\ UNCHANGED <<df, cache>>
    /\ UNCHANGED <<store, runs, widget, year_options, route_type_options,
                   selected_year, selected_type, filtered_df, metrics,
                   top_departure_countries, top_routes, m>>

(***************************************************************************)
(* The script body, lines 47-259.                                          *)
(***************************************************************************)
\* lines 49-50
DropId(d) == IF "_id" \in d.columns THEN Frame(d.columns \ {"_id"}, d.rows) ELSE d

\* lines 47-60: the sidebar and the filter.  A frame without a "Year" column
\* raises KeyError at line 54.  The multiselects return the session's
\* selection, on the first rendering their default, all options.
Sidebar ==
    /\ pc = "script"
    /\ ~df.isNone
    /\ df' = DropId(df)
    /\ IF "Year" \notin df'.columns
       THEN /\ ui' = ui \o <<"sidebar: Filter Options", Exception>>
            /\ pc' = "crashed"
            /\ UNCHANGED <<widget, year_options, route_type_options, selected_year,
                           selected_type, filtered_df>>
       ELSE /\ year_options' = SortAsc({ r.Year : r \in Range(df'.rows) })
            /\ route_type_options' = { r.Type : r \in Range(df'.rows) }
            /\ selected_year' = IF widget.set THEN widget.years ELSE Range(year_options')
            /\ selected_type' = IF widget.set THEN widget.types ELSE route_type_options'
            /\ widget' = [set |-> TRUE, years |-> selected_year', types |-> selected_type']
            /\ filtered_df' = FilterRows(df'.rows, selected_year', selected_type')
            /\ ui' = ui \o <<"sidebar: Filter Options", "sidebar: Select Year(s)",
                             "sidebar: Select Route Type(s)">>
            /\ pc' = "metrics"
    /\ UNCHANGED <<store, cache, loadTrace, contacts, runs, metrics,
                   top_departure_countries, top_routes, m>>

\* lines 258-259
NoData ==
    /\ pc = "script"
    /\ df.isNone
    /\ ui' = Append(ui, MsgUnable)
    /\ pc' = "done"
    /\ UNCHANGED <<store, cache, loadTrace, contacts, runs, widget, df, year_options,
                   route_type_options, selected_year, selected_type, filtered_df,
                   metrics, top_departure_countries, top_routes, m>>

\* lines 62-70: idxmax of an empty Series raises ValueError at line 67, after
\* the header and the columns are on the page and before any metric is
KeyMetrics ==
    /\ pc = "metrics"
    /\ IF filtered_df = <<>>
       THEN /\ ui' = ui \o <<"header: Key Metrics", Exception>>
            /\ pc' = "crashed"
            /\ UNCHANGED metrics
       ELSE /\ metrics' = [total_passengers |-> TotalPassengers(filtered_df),
                           total_routes |-> Len(filtered_df),
                           top_country |-> TopCountry(filtered_df)]
            /\ ui' = ui \o <<"header: Key Metrics", "metric: Total Passengers",
                             "metric: Total Routes", "metric: Top Origin Country">>
            /\ pc' = "table"
    /\ UNCHANGED <<store, cache, loadTrace, contacts, runs, widget, df, year_options,
                   route_type_options, selected_year, selected_type, filtered_df,
                   top_departure_countries, top_routes, m>>

\* lines 72-74
DataTable ==
    /\ pc = "table"
    /\ ui' = ui \o <<"header: Flight Routes Data", "dataframe">>
    /\ pc' = "trend"
    /\ UNCHANGED <<store, cache, loadTrace, contacts, runs, widget, df, year_options,
                   route_type_options, selected_year, selected_type, filtered_df,
                   metrics, top_departure_countries, top_routes, m>>

\* lines 80-96
PassengerTrends ==
    /\ pc = "trend"
    /\ ui' = ui \o <<"header: Passenger Trends by Year", "chart: trend">>
    /\ pc' = "departure"
    /\ UNCHANGED <<store, cache, loadTrace, contacts, runs, widget, df, year_options,
                   route_type_options, selected_year, selected_type, filtered_df,
                   metrics, top_departure_countries, top_routes, m>>

\* lines 98-131: plotting a table without rows raises inside the try and is
\* reported in place of the chart
DepartureChart ==
    /\ pc = "departure"
    /\ \E tieLast \in BOOLEAN :
          top_departure_countries' = TopDepartureCountries(filtered_df, tieLast)
    /\ IF top_departure_countries'.index = <<>>
       THEN ui' = ui \o <<"header: Top 5 Departure Countries by Route Type", MsgDepartureError>>
       ELSE ui' = ui \o <<"header: Top 5 Departure Countries by Route Type", "chart: departure">>
    /\ pc' = "toproutes"
    /\ UNCHANGED <<store, cache, loadTrace, contacts, runs, widget, df, year_options,
                   route_type_options, selected_year, selected_type, filtered_df,
                   metrics, top_routes, m>>

\* lines 133-137
TopRoutesTable ==
    /\ pc = "toproutes"
    /\ \E tieLast \in BOOLEAN : top_routes' = TopRoutes(filtered_df, tieLast)
    /\ ui' = ui \o <<"header: Top 10 Busiest Routes", "table: top_routes">>
    /\ pc' = "map"
    /\ UNCHANGED <<store, cache, loadTrace, contacts, runs, widget, df, year_options,
                   route_type_options, selected_year, selected_type, filtered_df,
                   metrics, top_departure_countries, m>>

\* lines 139-257.  In the loop, line 181 divides by max(top_routes["Passengers"]):
\* with a maximum of 0 the first iteration raises ZeroDivisionError, the except
\* of line 256 reports it and folium_static is not reached.  Without routes
\* the loop is skipped and fit_bounds gets the bounds of an empty group, which
\* the map library may accept or reject.
InteractiveMap ==
    /\ pc = "map"
    /\ \E accepted \in BOOLEAN :
          LET failed == IF top_routes = <<>> THEN ~accepted
                        ELSE Max({ top_routes[i].Passengers : i \in 1..Len(top_routes) }) = 0
          IN  IF failed
              THEN /\ m' = NoMap
                   /\ ui' = ui \o <<"header: Interactive Flight Routes Map", MsgMapError>>
              ELSE /\ m' = IF top_routes = <<>>
                           THEN [shown |-> TRUE, marker |-> palestine_center, lines |-> <<>>]
                           ELSE BuildMap(top_routes)
                   /\ ui' = ui \o <<"header: Interactive Flight Routes Map", "map">>
    /\ pc' = "done"
    /\ UNCHANGED <<store, cache, loadTrace, contacts, runs, widget, df, year_options,
                   route_type_options, selected_year, selected_type, filtered_df,
                   metrics, top_departure_countries, top_routes>>

Next ==
    \/ StartRun
    \/ CallLoadData
    \/ TryPrimary
    \/ TrySecondary
    \/ Sidebar
    \/ NoData
    \/ KeyMetrics
    \/ DataTable
    \/ PassengerTrends
    \/ DepartureChart
    \/ TopRoutesTable
    \/ InteractiveMap

Spec == Init /\ [][Next]_vars

(***************************************************************************)
(* The aggregations of lines 101-103 and 135-136 on larger inputs than the *)
(* session specification can hold: more than TopRoutesN route groups and   *)
(* more than TopCountriesN countries.                                      *)
(***************************************************************************)
\* n records: record i is of route ((i-1) % k) + 1, with shifted coordinates
\* when i is a multiple of k + 1; its country is ((i-1) % q) + 1, its Type
\* alternates (every third record "A" when mixed), its Passengers is
\* (a * i + b) % 5
AggRows(n, k, q, mixed, a, b) ==
    [i \in 1..n |->
        MkRow(((i - 1) % k) + 1, IF i % (k + 1) = 0 THEN 1 ELSE 0, ((i - 1) % q) + 1, 2020,
              IF (IF mixed THEN i % 3 = 0 ELSE i % 2 = 0) THEN "A" ELSE "B",
              (a * i + b) % 5)]

AggInputs ==
    { AggRows(n, k, q, mixed, a, b) :
        n \in 0..MaxAggRows, k \in {2, 5, 10, MaxAggRows}, q \in {1, 4, 7},
        mixed \in BOOLEAN, a \in {0, 1, 3}, b \in {0, 1} }

InitAgg ==
    /\ filtered_df \in AggInputs
    /\ pc = "agg"
    /\ store = <<>>
    /\ cache = NoCache
    /\ loadTrace = <<>>
    /\ contacts = <<>>
    /\ runs = 0
    /\ widget = NoWidget
    /\ df = NoneDF
    /\ year_options = <<>>
    /\ route_type_options = {}
    /\ selected_year = {}
    /\ selected_type = {}
    /\ metrics = NoMetrics
    /\ top_departure_countries = EmptyTable
    /\ top_routes = <<>>
    /\ m = NoMap
    /\ ui = <<>>

\* lines 135-136 applied to the input
AggTopRoutes ==
    /\ pc = "agg"
    /\ \E tieLast \in BOOLEAN : top_routes' = TopRoutes(filtered_df, tieLast)
    /\ pc' = "agg_routes"
    /\ UNCHANGED <<store, cache, loadTrace, contacts, runs, widget, df, year_options,
                   route_type_options, selected_year, selected_type, filtered_df,
                   metrics, top_departure_countries, m, ui>>

\* lines 101-103 applied to the input
AggDeparture ==
    /\ pc = "agg_routes"
    /\ \E tieLast \in BOOLEAN :
          top_departure_countries' = TopDepartureCountries(filtered_df, tieLast)
    /\ pc' = "agg_done"
    /\ UNCHANGED <<store, cache, loadTrace, contacts, runs, widget, df, year_options,
                   route_type_options, selected_year, selected_type, filtered_df,
                   metrics, top_routes, m, ui>>

NextAgg ==
    \/ AggTopRoutes
    \/ AggDeparture

SpecAgg == InitAgg /\ [][NextAgg]_vars

(***************************************************************************)
(* Vocabulary of the properties.                                           *)
(***************************************************************************)
Last(s) == s[Len(s)]

StErrors == {MsgNoSource, MsgUnable, MsgDepartureError, MsgMapError}
Visuals == {"metric: Total Passengers", "metric: Total Routes", "metric: Top Origin Country",
            "dataframe", "chart: trend", "chart: departure", "table: top_routes", "map"}

CountIn(s, S) == Cardinality({ i \in 1..Len(s) : s[i] \in S })

RunEnded == pc \in {"done", "crashed"}

\* line 60 has been executed in the current run
FilterApplied == pc \notin {"idle", "load", "primary", "secondary", "script"}
                 /\ "sidebar: Select Year(s)" \in Range(ui)

LoadFinished == loadTrace # <<>> /\ Last(loadTrace) \in {"Loaded", "Unavailable"}

RECURSIVE SumOver(_, _)
\* the Passengers of the rows at the positions I, added up
SumOver(rows, I) ==
    IF I = {} THEN 0
    ELSE LET i == CHOOSE x \in I : TRUE
         IN  rows[i].Passengers + SumOver(rows, I \ {i})

\* the visual blocks: header, what a rendering consists of, and the inline
\* error message of the block if the script has one
Blocks == {"metrics", "table", "trend", "departure", "toproutes", "map"}

BlockHeader(b) ==
    CASE b = "metrics" -> "header: Key Metrics"
      [] b = "table" -> "header: Flight Routes Data"
      [] b = "trend" -> "header: Passenger Trends by Year"
      [] b = "departure" -> "header: Top 5 Departure Countries by Route Type"
      [] b = "toproutes" -> "header: Top 10 Busiest Routes"
      [] b = "map" -> "header: Interactive Flight Routes Map"

BlockVisuals(b) ==
    CASE b = "metrics" -> {"metric: Total Passengers", "metric: Total Routes",
                           "metric: Top Origin Country"}
      [] b = "table" -> {"dataframe"}
      [] b = "trend" -> {"chart: trend"}
      [] b = "departure" -> {"chart: departure"}
      [] b = "toproutes" -> {"table: top_routes"}
      [] b = "map" -> {"map"}

BlockRendered(b) == BlockVisuals(b) \subseteq Range(ui)

\* the block's header is followed by an error shown in the block's place
BlockReplacedByError(b) ==
    \E i \in 1..(Len(ui) - 1) :
        ui[i] = BlockHeader(b) /\ ui[i + 1] \in StErrors \cup {Exception}

(***************************************************************************)
(* Claims.                                                                 *)
(***************************************************************************)
\* C1: when MongoDB is unreachable and the CSV file is absent, load_data
\* returns None (Unavailable) and the run shows exactly one error message and
\* no metric, table, chart or map.
C1_SingleErrorWhenUnavailable ==
    (pc = "done" /\ LoadFinished /\ Last(loadTrace) = "Unavailable")
        => /\ df.isNone
           /\ CountIn(ui, StErrors) = 1
           /\ CountIn(ui, Visuals) = 0

\* C2: for every filter selection on a loaded, non-empty dataset, an empty
\* selection included, no aggregate raises an uncaught error: a run that has
\* applied the filter does not end in an uncaught exception.
C2_AggregatesNeverRaise ==
    (FilterApplied /\ df.rows # <<>>) => pc # "crashed"

\* C3: failure isolation: when a run that has applied the filter ends, every
\* visual block is on the page, either rendered or replaced by an error
\* message shown in its place; a failure in one block removes no other block.
C3_FailureIsolated ==
    (RunEnded /\ FilterApplied /\ df.rows # <<>>)
        => \A b \in Blocks : BlockRendered(b) \/ BlockReplacedByError(b)

\* C4: the load follows TryPrimary -> Loaded | TrySecondary and
\* TrySecondary -> Loaded | Unavailable and no other transition: the primary
\* is attempted first, the secondary only after it, and once load_data is left
\* the load is in Loaded or Unavailable.
C4_LoadStateMachine ==
    /\ loadTrace \in { <<>>, <<"TryPrimary">>, <<"TryPrimary", "Loaded">>,
                       <<"TryPrimary", "TrySecondary">>,
                       <<"TryPrimary", "TrySecondary", "Loaded">>,
                       <<"TryPrimary", "TrySecondary", "Unavailable">> }
    /\ \A i \in 1..Len(contacts) :
          contacts[i] = "secondary" => (i > 1 /\ contacts[i - 1] = "primary")
    /\ (runs > 0 /\ pc \notin {"load", "primary", "secondary"}) => LoadFinished

\* the positions of the rows of the loaded dataset that the selection admits
Admitted == { i \in 1..Len(df.rows) :
                df.rows[i].Year \in selected_year /\ df.rows[i].Type \in selected_type }

\* C5: the filtered dataset is exactly the original rows, in their order and
\* unaltered, whose Year is selected and whose Type is selected; an empty
\* selection of either dimension gives no row; the full domain of both, which
\* is the selection of the first run, gives the whole dataset.
C5_FilterExact ==
    FilterApplied =>
        /\ Len(filtered_df) = Cardinality(Admitted)
        /\ \A j \in 1..Len(filtered_df) : filtered_df[j] = df.rows[SortAsc(Admitted)[j]]
        /\ (selected_year = {} \/ selected_type = {}) => filtered_df = <<>>
        /\ (selected_year = Range(year_options) /\ selected_type = route_type_options)
               => filtered_df = df.rows
        /\ runs = 1 => filtered_df = df.rows

\* a selection that keeps a row and drops another whose Year is selected and
\* whose Type is not
C5_Witness ==
    /\ FilterApplied
    /\ filtered_df # <<>>
    /\ \E i \in 1..Len(df.rows) :
          df.rows[i].Year \in selected_year /\ df.rows[i].Type \notin selected_type

\* C6: the static marker at [31.5, 34.5] is on the displayed map at the end of
\* every run with a loaded dataset, also when the selection leaves the
\* filtered dataset empty.
C6_MarkerAlwaysRendered ==
    (RunEnded /\ FilterApplied /\ df.rows # <<>> /\ filtered_df = <<>>)
        => (m.shown /\ m.marker = palestine_center)

\* what load_data returned when its body ended with the trace tr
ResultOf(tr) ==
    CASE tr = <<"TryPrimary", "Loaded">> -> MongoFrame(store)
      [] tr = <<"TryPrimary", "TrySecondary", "Loaded">> -> CsvFrame(store)
      [] OTHER -> NoneDF

\* C7: once a load has finished in Loaded or Unavailable, no later step of the
\* session contacts a data source or starts another load, and every run
\* receives from load_data the result of that load.
C7_SessionCache ==
    /\ [][LoadFinished => (contacts' = contacts /\ loadTrace' = loadTrace)]_vars
    /\ [](pc = "script" => (LoadFinished /\ df = ResultOf(loadTrace)))

\* a later run served from the cache after a fallback to the CSV file
C7_Witness ==
    /\ runs >= 2
    /\ pc = "script"
    /\ loadTrace = <<"TryPrimary", "TrySecondary", "Loaded">>
    /\ contacts = <<"primary", "secondary">>
    /\ df = CsvFrame(store)
    /\ store # <<>>

\* C8: every route of the top set is drawn with the weight
\* 2 + Passengers / max * 5, which is defined and lies in [2, 7] (7 for the
\* busiest route), also when the maximum of the top set is 0.
C8_LineWeightDefined ==
    (pc = "done" /\ top_routes # <<>>) =>
        /\ m.shown
        /\ Len(m.lines) = Len(top_routes)
        /\ \A i \in 1..Len(m.lines) :
              LET w == m.lines[i].weight
                  mx == Max({ top_routes[j].Passengers : j \in 1..Len(top_routes) })
              IN  /\ w.den > 0
                  /\ w.num * mx = w.den * (BaseWeight * mx + WeightScale * top_routes[i].Passengers)
                  /\ BaseWeight * w.den <= w.num
                  /\ w.num <= (BaseWeight + WeightScale) * w.den
                  /\ top_routes[i].Passengers = mx
                         => w.num = (BaseWeight + WeightScale) * w.den

\* the groups of line 135 in the aggregation input, and the total of one
RouteKeys == { RouteKey(r) : r \in Range(filtered_df) }
RouteTotal(k) ==
    SumOver(filtered_df, { i \in 1..Len(filtered_df) : RouteKey(filtered_df[i]) = k })

\* C9: top_routes holds one entry per distinct (Route, From, To, From_Lat,
\* From_Lon, To_Lat, To_Lon) group with the sum of the group's Passengers, is
\* sorted by Passengers descending, has min(10, number of groups) entries, and
\* no group left out has more Passengers than an entry kept.
C9_TopRoutes ==
    pc \in {"agg_routes", "agg_done"} =>
        /\ Len(top_routes) = Min(TopRoutesN, Cardinality(RouteKeys))
        /\ \A i \in 1..Len(top_routes) :
              /\ RouteKey(top_routes[i]) \in RouteKeys
              /\ top_routes[i].Passengers = RouteTotal(RouteKey(top_routes[i]))
        /\ \A i, j \in 1..Len(top_routes) :
              i < j => /\ RouteKey(top_routes[i]) # RouteKey(top_routes[j])
                       /\ top_routes[i].Passengers >= top_routes[j].Passengers
        /\ \A k \in RouteKeys \ { RouteKey(top_routes[i]) : i \in 1..Len(top_routes) } :
              \A i \in 1..Len(top_routes) : top_routes[i].Passengers >= RouteTotal(k)

\* more than ten groups, one of several rows, one Route string with two
\* coordinate sets, and totals that differ
C9_Witness ==
    /\ pc = "agg_routes"
    /\ Cardinality(RouteKeys) > TopRoutesN
    /\ Len(top_routes) = TopRoutesN
    /\ top_routes[1].Passengers > top_routes[TopRoutesN].Passengers
    /\ \E i, j \in 1..Len(filtered_df) :
          i # j /\ RouteKey(filtered_df[i]) = RouteKey(filtered_df[j])
    /\ \E i, j \in 1..Len(filtered_df) :
          /\ filtered_df[i].Route = filtered_df[j].Route
          /\ RouteKey(filtered_df[i]) # RouteKey(filtered_df[j])

DepCountries == { r.From_Country : r \in Range(filtered_df) }
DepTypes == { r.Type : r \in Range(filtered_df) }
DepPairRows(c, t) ==
    { i \in 1..Len(filtered_df) :
        filtered_df[i].From_Country = c /\ filtered_df[i].Type = t }
DepCountryTotal(c) ==
    SumOver(filtered_df, { i \in 1..Len(filtered_df) : filtered_df[i].From_Country = c })

\* C10: top_departure_countries has one row for each of the min(5, number of
\* countries) countries with the largest total Passengers, in descending order
\* of the total, and one column per Type present; every cell is the sum of the
\* Passengers of the rows of its (From_Country, Type) pair, 0 without such a
\* row, never missing; there is no "Total" column.
C10_TopDepartureCountries ==
    pc = "agg_done" =>
        LET t == top_departure_countries
            kept == Range(t.index)
        IN  /\ t.columns = DepTypes
            /\ "Total" \notin t.columns
            /\ Len(t.index) = Min(TopCountriesN, Cardinality(DepCountries))
            /\ kept \subseteq DepCountries
            /\ Cardinality(kept) = Len(t.index)
            /\ \A i, j \in 1..Len(t.index) :
                  i < j => DepCountryTotal(t.index[i]) >= DepCountryTotal(t.index[j])
            /\ \A c \in DepCountries \ kept :
                  \A d \in kept : DepCountryTotal(d) >= DepCountryTotal(c)
            /\ DOMAIN t.cell = kept \X DepTypes
            /\ \A pr \in kept \X DepTypes :
                  /\ t.cell[pr] # NaN
                  /\ t.cell[pr] = SumOver(filtered_df, DepPairRows(pr[1], pr[2]))
                  /\ DepPairRows(pr[1], pr[2]) = {} => t.cell[pr] = 0

\* more than five countries, two Types, a kept country without a row of one
\* Type, and a country left out
C10_Witness ==
    /\ pc = "agg_done"
    /\ Cardinality(DepCountries) > TopCountriesN
    /\ Len(top_departure_countries.index) = TopCountriesN
    /\ Cardinality(DepTypes) = 2
    /\ \E c \in Range(top_departure_countries.index), t \in DepTypes :
          /\ DepPairRows(c, t) = {}
          /\ top_departure_countries.cell[<<c, t>>] = 0
    /\ \E c \in Range(top_departure_countries.index), t \in DepTypes :
          top_departure_countries.cell[<<c, t>>] > 0

====
